---- MODULE Spec2Model ----
(***************************************************************************)
(* Task description parser, task registry, environment factory, training  *)
(* integrator and credential store of osrs_rl_gui, modelled as state       *)
(* machines.                                                               *)
(*                                                                         *)
(* Descriptions are real character strings: the regular expressions of    *)
(* task_system.py are matched character by character with Python's        *)
(* leftmost, greedy/lazy, backtracking semantics.                          *)
(***************************************************************************)
EXTENDS Integers, Sequences, FiniteSets, TLC

VARIABLES
    description,      \* the text the user of a one-description session types
    tasks,            \* TaskManager.tasks, the registry
    ret,              \* the last call: [op, args, raised, value]
    _base_contracts,  \* EnvironmentFactory._base_contracts: name -> document
    lists,            \* the list objects owned by the base contracts
    contracts,        \* the contracts create_environment_for_task returned
    _configs,         \* ConfigManager._configs: name -> configuration
    config_files,     \* config_dir: name -> content of <name>.yaml
    temp_files,       \* contracts_dir: file name -> contract written
    prepared,         \* the prepare_training_for_task calls made
    _credentials_file,  \* ~/.osrs_rl/.creds: <<token>>, or <<>> when absent
    credential_calls    \* the SecureCredentialStore calls made

manager_vars == <<tasks, ret>>
factory_vars == <<_base_contracts, lists, contracts>>
integrator_vars == <<_configs, config_files, temp_files, prepared>>
storage_vars == <<_credentials_file, credential_calls>>

vars ==
    <<description, manager_vars, factory_vars, integrator_vars, storage_vars>>

(***************************************************************************)
(* Bounds of the model.                                                    *)
(***************************************************************************)
MaxWords == 3          \* words in a generated description
MaxSessionTasks == 1   \* registry size in a one-description session
MaxTasks == 2          \* registry size in a session over the examples
MaxFactoryTasks == 1   \* registry size in a factory or integrator session
MaxCalls == 2          \* create_environment_for_task calls in a session
MaxPrepares == 2       \* prepare_training_for_task calls in a session
MaxCredentialCalls == 3  \* SecureCredentialStore calls in a session

(***************************************************************************)
(* Characters and Python string methods.                                   *)
(***************************************************************************)
None == "None"

DigitString == "0123456789"
LowerString == "abcdefghijklmnopqrstuvwxyz"
UpperString == "ABCDEFGHIJKLMNOPQRSTUVWXYZ"

\* F(v) with v evaluated once, whatever the number of its uses in F
Let(v, F(_)) == CHOOSE r \in {F(x) : x \in {v}} : TRUE

Ch(s, i) == SubSeq(s, i, i)

CharsOf(s) == {Ch(s, i) : i \in 1..Len(s)}

DigitChars == CharsOf(DigitString)
LowerChars == CharsOf(LowerString)
SpaceChars == {" "}
LowerSpaceChars == LowerChars \cup SpaceChars

IndexIn(c, alphabet) == CHOOSE i \in 1..Len(alphabet) : Ch(alphabet, i) = c

\* str.lower() on one character
LowerChar(c) ==
    IF c \in CharsOf(UpperString) THEN Ch(LowerString, IndexIn(c, UpperString)) ELSE c

\* str.upper() on one character
UpperChar(c) ==
    IF c \in LowerChars THEN Ch(UpperString, IndexIn(c, LowerString)) ELSE c

RECURSIVE Lower(_)
Lower(s) == IF s = "" THEN "" ELSE LowerChar(Head(s)) \o Lower(Tail(s))

\* str.capitalize(): first character upper-cased, the rest lower-cased
Capitalize(w) == IF w = "" THEN "" ELSE UpperChar(Head(w)) \o Lower(Tail(w))

\* first position >= i whose character is not in cs (Len(s)+1 when none)
RECURSIVE RunEnd(_, _, _)
RunEnd(s, i, cs) ==
    IF i <= Len(s) /\ Ch(s, i) \in cs THEN RunEnd(s, i + 1, cs) ELSE i

\* last position <= i whose character is not in cs (0 when none)
RECURSIVE RunStart(_, _, _)
RunStart(s, i, cs) ==
    IF i >= 1 /\ Ch(s, i) \in cs THEN RunStart(s, i - 1, cs) ELSE i

\* str.strip()
Strip(s) ==
    Let(RunEnd(s, 1, SpaceChars), LAMBDA a :
    Let(RunStart(s, Len(s), SpaceChars), LAMBDA b :
        IF a > b THEN "" ELSE SubSeq(s, a, b)))

\* str.split(): the maximal runs of non-whitespace, in order
RECURSIVE SplitFrom(_, _)
SplitFrom(s, i) ==
    Let(RunEnd(s, i, SpaceChars), LAMBDA a :
    Let(RunEnd(s, a, CharsOf(s) \ SpaceChars), LAMBDA b :
        IF a > Len(s) THEN <<>> ELSE <<SubSeq(s, a, b - 1)>> \o SplitFrom(s, b)))

Split(s) == SplitFrom(s, 1)

\* ' '.join(words)
RECURSIVE Join(_)
Join(ws) ==
    IF ws = <<>> THEN ""
    ELSE IF Len(ws) = 1 THEN ws[1]
    ELSE ws[1] \o " " \o Join(Tail(ws))

StartsWithAt(s, i, p) ==
    /\ i >= 1
    /\ i + Len(p) - 1 <= Len(s)
    /\ SubSeq(s, i, i + Len(p) - 1) = p

\* Python's `sub in s`
Contains(s, sub) == \E i \in 1..(Len(s) + 1) : StartsWithAt(s, i, sub)

Range(f) == {f[i] : i \in DOMAIN f}

Max(S) == CHOOSE x \in S : \A y \in S : y <= x
Min(S) == CHOOSE x \in S : \A y \in S : x <= y

\* value of a string of decimal digits
RECURSIVE DigitsValue(_)
DigitsValue(s) ==
    IF s = "" THEN 0
    ELSE 10 * DigitsValue(SubSeq(s, 1, Len(s) - 1))
            + (IndexIn(Ch(s, Len(s)), DigitString) - 1)

\* int(s): surrounding whitespace is ignored; anything but decimal digits
\* raises ValueError
int(s) ==
    Let(Strip(s), LAMBDA t :
        IF t # "" /\ CharsOf(t) \subseteq DigitChars
        THEN [raised |-> None, value |-> DigitsValue(t)]
        ELSE [raised |-> "ValueError", value |-> 0])

(***************************************************************************)
(* re.findall for the four patterns of TaskParser.  A match is             *)
(* [ok, groups, end]: `end` is the position after the match, where the     *)
(* scan for the next non-overlapping match resumes.  In each alternation   *)
(* no alternative is a prefix of another, so at most one can match at a    *)
(* position and the order of the alternatives decides nothing.             *)
(***************************************************************************)
NoMatch == [ok |-> FALSE, groups |-> <<>>, end |-> 0]

FirstAlt(s, i, alts) ==
    Let({a \in 1..Len(alts) : StartsWithAt(s, i, alts[a])}, LAMBDA hits :
        IF hits = {} THEN "" ELSE alts[Min(hits)])

ObjectiveVerbs == <<"kill", "mine", "cut", "cook", "craft", "make", "get", "obtain">>
PastVerbs == <<"killed", "mined", "cut", "cooked", "crafted", "made">>
LevelWords == <<"level", "skill">>
ItemVerbs == <<"need", "require", "bring", "have">>
ItemTerminators == <<"and", "or", ",">>

\* (kill|mine|cut|cook|craft|make|get|obtain)\s+(\d+)\s+([a-z\s]+)
\* The last \s+ is greedy and gives characters back only when nothing of
\* [a-z\s] would be left for group 3: P holds the starts it can leave.
MatchVerbQuantityTarget(s, i) ==
    Let(FirstAlt(s, i, ObjectiveVerbs), LAMBDA v :
    Let(RunEnd(s, i + Len(v), SpaceChars), LAMBDA k :
    Let(RunEnd(s, k, DigitChars), LAMBDA l :
    Let({p \in (l + 1)..RunEnd(s, l, SpaceChars) :
            RunEnd(s, p, LowerSpaceChars) > p}, LAMBDA P :
        IF v = "" \/ k = i + Len(v) \/ l = k \/ P = {} THEN NoMatch
        ELSE Let(Max(P), LAMBDA p :
             Let(RunEnd(s, p, LowerSpaceChars), LAMBDA e :
                 [ok |-> TRUE,
                  groups |-> <<v, SubSeq(s, k, l - 1), SubSeq(s, p, e - 1)>>,
                  end |-> e]))))))

\* the past-tense verb that \s+(killed|...) finds after position e - 1
PastVerbAfter(s, e) ==
    IF e <= Len(s) /\ Ch(s, e) \in SpaceChars
    THEN FirstAlt(s, RunEnd(s, e, SpaceChars), PastVerbs)
    ELSE ""

\* (\d+)\s+([a-z\s]+)\s+(killed|mined|cut|cooked|crafted|made)
\* Group 2 starts at the last p the first \s+ can leave and, being greedy,
\* ends before the last whitespace that a past-tense verb follows.
MatchQuantityTargetVerb(s, i) ==
    Let(RunEnd(s, i, DigitChars), LAMBDA j :
    Let(RunEnd(s, j, LowerSpaceChars), LAMBDA r :
    Let({e \in (j + 2)..r : PastVerbAfter(s, e) # ""}, LAMBDA E :
    Let({p \in (j + 1)..RunEnd(s, j, SpaceChars) :
            \E e \in E : e > p}, LAMBDA P :
        IF j = i \/ P = {} THEN NoMatch
        ELSE Let(Max(P), LAMBDA p :
             Let(Max(E), LAMBDA e :
             Let(PastVerbAfter(s, e), LAMBDA verb :
                 [ok |-> TRUE,
                  groups |-> <<SubSeq(s, i, j - 1), SubSeq(s, p, e - 1), verb>>,
                  end |-> RunEnd(s, e, SpaceChars) + Len(verb)])))))))

\* (\d+)\s+([a-z]+)\s+(?:level|skill)
MatchLevel(s, i) ==
    Let(RunEnd(s, i, DigitChars), LAMBDA j :
    Let(RunEnd(s, j, SpaceChars), LAMBDA k :
    Let(RunEnd(s, k, LowerChars), LAMBDA l :
    Let(RunEnd(s, l, SpaceChars), LAMBDA t :
    Let(FirstAlt(s, t, LevelWords), LAMBDA w :
        IF j = i \/ k = j \/ l = k \/ t = l \/ w = "" THEN NoMatch
        ELSE [ok |-> TRUE,
              groups |-> <<SubSeq(s, i, j - 1), SubSeq(s, k, l - 1)>>,
              end |-> t + Len(w)])))))

\* what (?:\s+(?:and|or|,)|$) matches at position e: a terminator word
\* after whitespace, "$" at the end of the string, or "" for no match
ItemEndAt(s, e) ==
    IF e = Len(s) + 1 THEN "$"
    ELSE IF e <= Len(s) /\ Ch(s, e) \in SpaceChars
    THEN FirstAlt(s, RunEnd(s, e, SpaceChars), ItemTerminators)
    ELSE ""

\* (?:need|require|bring|have)\s+([a-z\s]+?)(?:\s+(?:and|or|,)|$)
\* The group starts at the last p the \s+ can leave and, being lazy, ends at
\* the first position after p where the terminator matches.
MatchItem(s, i) ==
    Let(FirstAlt(s, i, ItemVerbs), LAMBDA v :
    Let(RunEnd(s, i + Len(v), SpaceChars), LAMBDA k :
    Let({e \in (i + Len(v) + 2)..RunEnd(s, i + Len(v), LowerSpaceChars) :
            ItemEndAt(s, e) # ""}, LAMBDA E :
    Let({p \in (i + Len(v) + 1)..k : \E e \in E : e > p}, LAMBDA P :
        IF v = "" \/ P = {} THEN NoMatch
        ELSE Let(Max(P), LAMBDA p :
             Let(Min({e \in E : e > p}), LAMBDA e :
             Let(ItemEndAt(s, e), LAMBDA term :
                 [ok |-> TRUE,
                  groups |-> <<SubSeq(s, p, e - 1)>>,
                  end |-> IF term = "$" THEN e
                          ELSE RunEnd(s, e, SpaceChars) + Len(term)])))))))

MatchAt(pattern, s, i) ==
    CASE pattern = "verb_quantity_target" -> MatchVerbQuantityTarget(s, i)
      [] pattern = "quantity_target_verb" -> MatchQuantityTargetVerb(s, i)
      [] pattern = "level" -> MatchLevel(s, i)
      [] pattern = "item" -> MatchItem(s, i)

\* re.findall(pattern, s): the groups of the non-overlapping matches, left
\* to right
RECURSIVE FindAllFrom(_, _, _)
FindAllFrom(pattern, s, i) ==
    IF i > Len(s) THEN <<>>
    ELSE Let(MatchAt(pattern, s, i), LAMBDA m :
             IF m.ok THEN <<m.groups>> \o FindAllFrom(pattern, s, m.end)
             ELSE FindAllFrom(pattern, s, i + 1))

findall(pattern, s) == FindAllFrom(pattern, s, 1)

(***************************************************************************)
(* task_system.py: the enumerations, the records and TaskParser.           *)
(***************************************************************************)
COMBAT == "combat"
SKILLING == "skilling"
QUESTING == "questing"
TRADING == "trading"
EXPLORATION == "exploration"
PVP == "pvp"
UNKNOWN == "unknown"
TaskCategory == {COMBAT, SKILLING, QUESTING, TRADING, EXPLORATION, PVP, UNKNOWN}

BEGINNER == "beginner"
INTERMEDIATE == "intermediate"
ADVANCED == "advanced"
EXPERT == "expert"
TaskDifficulty == {BEGINNER, INTERMEDIATE, ADVANCED, EXPERT}

_skill_keywords ==
    {"attack", "defence", "strength", "hitpoints", "ranged", "prayer",
     "magic", "cooking", "woodcutting", "fletching", "fishing", "firemaking",
     "crafting", "smithing", "mining", "herblore", "agility", "thieving",
     "slayer", "farming", "runecraft", "hunter", "construction"}

_combat_keywords ==
    {"fight", "kill", "attack", "combat", "battle", "pvp", "pvm",
     "monster", "boss", "dragon", "demon", "giant", "warrior"}

_skilling_keywords ==
    {"mine", "cut", "fish", "cook", "craft", "smith", "make", "create",
     "train", "level", "xp", "experience", "skill"}

\* TaskObjective(description, target, quantity): location and completed
\* take their defaults
TaskObjective(text, target, quantity) ==
    [description |-> text, target |-> target, quantity |-> quantity,
     location |-> None, completed |-> FALSE]

TaskRequirement(skill_levels, items, quests_completed) ==
    [skill_levels |-> skill_levels, items |-> items,
     quests_completed |-> quests_completed, combat_level |-> None]

\* Task(...): __post_init__ replaces the None rewards by {} and []
Task(name, text, category, difficulty, objectives, requirements) ==
    [name |-> name, description |-> text, category |-> category,
     difficulty |-> difficulty, objectives |-> objectives,
     requirements |-> requirements, estimated_duration |-> None,
     reward_xp |-> <<>>, reward_items |-> <<>>]

_determine_category(text) ==
    Let(Range(Split(text)), LAMBDA words :
        IF words \cap _combat_keywords # {} THEN COMBAT
        ELSE IF words \cap _skilling_keywords # {} THEN SKILLING
        ELSE IF Contains(text, "quest") THEN QUESTING
        ELSE IF \E w \in {"buy", "sell", "trade", "exchange"} : Contains(text, w)
            THEN TRADING
        ELSE IF \E w \in {"explore", "find", "locate", "go to"} : Contains(text, w)
            THEN EXPLORATION
        ELSE IF Contains(text, "pvp")
                \/ (Contains(text, "player") /\ Contains(text, "kill"))
            THEN PVP
        ELSE UNKNOWN)

\* One objective per match, the three groups of the match unpacked as
\* action, quantity, target whichever pattern produced them.
ObjectiveOfMatch(match) ==
    LET action == match[1]
        quantity == match[2]
        target == match[3]
    IN  Let(int(quantity), LAMBDA converted :
            [raised |-> converted.raised,
             value |-> TaskObjective(
                           Strip(action \o " " \o quantity \o " " \o target),
                           Strip(target),
                           converted.value)])

\* Variant of _extract_objectives without the fallback objective of lines
\* 165-170: no match gives no objective.
_extract_objectives_without_fallback(text) ==
    Let(findall("verb_quantity_target", text)
            \o findall("quantity_target_verb", text), LAMBDA matches :
    Let([n \in 1..Len(matches) |-> ObjectiveOfMatch(matches[n])], LAMBDA made :
        IF \E n \in 1..Len(made) : made[n].raised # None
        THEN [raised |-> "ValueError", value |-> <<>>]
        ELSE [raised |-> None,
              value |-> [n \in 1..Len(made) |-> made[n].value]]))

\* [raised, value]: the objectives, or the error int() raised on a match
_extract_objectives(text) ==
    Let(findall("verb_quantity_target", text)
            \o findall("quantity_target_verb", text), LAMBDA matches :
    Let([n \in 1..Len(matches) |-> ObjectiveOfMatch(matches[n])], LAMBDA made :
        IF \E n \in 1..Len(made) : made[n].raised # None
        THEN [raised |-> "ValueError", value |-> <<>>]
        ELSE IF Len(made) = 0
        THEN [raised |-> None, value |-> <<TaskObjective(text, "general", 1)>>]
        ELSE [raised |-> None,
              value |-> [n \in 1..Len(made) |-> made[n].value]]))

\* Variant of _determine_difficulty whose objective-count rule fires on any
\* objective instead of more than 3.
_determine_difficulty_any_objective(text, objectives) ==
    LET advanced_keywords ==
            {"boss", "raid", "advanced", "expert", "high level", "difficult"}
        intermediate_keywords == {"medium", "moderate", "some", "several"}
    IN  IF \E keyword \in advanced_keywords : Contains(text, keyword) THEN ADVANCED
        ELSE IF \E keyword \in intermediate_keywords : Contains(text, keyword)
            THEN INTERMEDIATE
        ELSE IF Len(objectives) > 0 THEN INTERMEDIATE
        ELSE BEGINNER

_determine_difficulty(text, objectives) ==
    LET advanced_keywords ==
            {"boss", "raid", "advanced", "expert", "high level", "difficult"}
        intermediate_keywords == {"medium", "moderate", "some", "several"}
    IN  IF \E keyword \in advanced_keywords : Contains(text, keyword) THEN ADVANCED
        ELSE IF \E keyword \in intermediate_keywords : Contains(text, keyword)
            THEN INTERMEDIATE
        ELSE IF Len(objectives) > 3 THEN INTERMEDIATE
        ELSE BEGINNER

\* Variant of SkillLevels without the test against _skill_keywords: every
\* word before "level" or "skill" becomes a key.
RECURSIVE SkillLevels_any_word(_)
SkillLevels_any_word(level_matches) ==
    IF level_matches = <<>> THEN <<>>
    ELSE LET n == Len(level_matches)
             level == level_matches[n][1]
             skill == level_matches[n][2]
             before == SkillLevels_any_word(SubSeq(level_matches, 1, n - 1))
         IN  (skill :> int(level).value) @@ before

\* the dict built by assigning skill_levels[skill] = int(level) match by match
RECURSIVE SkillLevels(_)
SkillLevels(level_matches) ==
    IF level_matches = <<>> THEN <<>>
    ELSE LET n == Len(level_matches)
             level == level_matches[n][1]
             skill == level_matches[n][2]
             before == SkillLevels(SubSeq(level_matches, 1, n - 1))
         IN  IF skill \in _skill_keywords
             THEN (skill :> int(level).value) @@ before
             ELSE before

_extract_requirements(text) ==
    Let(findall("level", text), LAMBDA level_matches :
    Let(findall("item", text), LAMBDA item_matches :
        TaskRequirement(
            SkillLevels(level_matches),
            [n \in 1..Len(item_matches) |-> Strip(item_matches[n][1])],
            <<>>)))

_generate_task_name(text) ==
    Let(Split(text), LAMBDA all :
    Let(SubSeq(all, 1, IF Len(all) < 5 THEN Len(all) ELSE 5), LAMBDA words :
        Join([n \in 1..Len(words) |-> Capitalize(words[n])])))

\* [raised, value]: the Task, or the error that left parse_task
parse_task(raw) ==
    Let(Strip(Lower(raw)), LAMBDA text :
    Let(_extract_objectives(text), LAMBDA objectives :
        IF objectives.raised # None
        THEN [raised |-> objectives.raised, value |-> None]
        ELSE [raised |-> None,
              value |-> Task(_generate_task_name(text),
                             text,
                             _determine_category(text),
                             _determine_difficulty(text, objectives.value),
                             objectives.value,
                             _extract_requirements(text))]))

(***************************************************************************)
(* TaskManager.                                                            *)
(***************************************************************************)
NoCall == [op |-> "none", args |-> <<>>, raised |-> None, value |-> None]

Returned(op, args, value) ==
    [op |-> op, args |-> args, raised |-> None, value |-> value]

Raised(op, args, error) ==
    [op |-> op, args |-> args, raised |-> error, value |-> None]

\* TaskManager.__init__
TaskManagerInit == tasks = <<>> /\ ret = NoCall

\* Variant of create_task_from_description that puts the new task at the
\* head of the registry.
create_task_from_description_at_head(text) ==
    \E parsed \in {parse_task(text)} :
        IF parsed.raised # None
        THEN /\ tasks' = tasks
             /\ ret' = Raised("create_task_from_description", <<text>>, parsed.raised)
        ELSE /\ tasks' = <<parsed.value>> \o tasks
             /\ ret' = Returned("create_task_from_description", <<text>>, parsed.value)

\* An error raised by parse_task leaves create_task_from_description before
\* the append.
create_task_from_description(text) ==
    \E parsed \in {parse_task(text)} :
        IF parsed.raised # None
        THEN /\ tasks' = tasks
             /\ ret' = Raised("create_task_from_description", <<text>>, parsed.raised)
        ELSE /\ tasks' = Append(tasks, parsed.value)
             /\ ret' = Returned("create_task_from_description", <<text>>, parsed.value)

get_tasks_by_category(category) ==
    SelectSeq(tasks, LAMBDA task : task.category = category)

get_tasks_by_difficulty(difficulty) ==
    SelectSeq(tasks, LAMBDA task : task.difficulty = difficulty)

\* Variant of mark_objective_complete that marks the objective after the one
\* asked for.
mark_objective_complete_next_objective(t, objective_index) ==
    /\ t \in 1..Len(tasks)
    /\ tasks' = IF 0 <= objective_index
                    /\ objective_index < Len(tasks[t].objectives)
                THEN [tasks EXCEPT
                        ![t].objectives[
                            IF objective_index + 2 <= Len(tasks[t].objectives)
                            THEN objective_index + 2 ELSE 1].completed = TRUE]
                ELSE tasks
    /\ ret' = Returned("mark_objective_complete", <<t, objective_index>>, None)

\* Variant of mark_objective_complete without the lower bound check: a
\* negative index counts from the end of the list, as Python's indexing does.
mark_objective_complete_no_lower_bound(t, objective_index) ==
    /\ t \in 1..Len(tasks)
    /\ tasks' = IF objective_index < Len(tasks[t].objectives)
                    /\ 0 - objective_index <= Len(tasks[t].objectives)
                THEN [tasks EXCEPT
                        ![t].objectives[
                            IF objective_index >= 0 THEN objective_index + 1
                            ELSE Len(tasks[t].objectives) + objective_index + 1
                        ].completed = TRUE]
                ELSE tasks
    /\ ret' = Returned("mark_objective_complete", <<t, objective_index>>, None)

\* Variant of mark_objective_complete that also counts the objective's
\* quantity down to 0.
mark_objective_complete_zeroing_quantity(t, objective_index) ==
    /\ t \in 1..Len(tasks)
    /\ tasks' = IF 0 <= objective_index
                    /\ objective_index < Len(tasks[t].objectives)
                THEN [tasks EXCEPT
                        ![t].objectives[objective_index + 1].completed = TRUE,
                        ![t].objectives[objective_index + 1].quantity = 0]
                ELSE tasks
    /\ ret' = Returned("mark_objective_complete", <<t, objective_index>>, None)

\* Variant of mark_objective_complete that flips the flag instead of
\* setting it.
mark_objective_complete_toggling(t, objective_index) ==
    /\ t \in 1..Len(tasks)
    /\ tasks' = IF 0 <= objective_index
                    /\ objective_index < Len(tasks[t].objectives)
                THEN [tasks EXCEPT
                        ![t].objectives[objective_index + 1].completed = ~@]
                ELSE tasks
    /\ ret' = Returned("mark_objective_complete", <<t, objective_index>>, None)

\* The task is the one at position t of the registry; objective_index is the
\* 0-based index the caller passes.
mark_objective_complete(t, objective_index) ==
    /\ t \in 1..Len(tasks)
    /\ tasks' = IF 0 <= objective_index
                    /\ objective_index < Len(tasks[t].objectives)
                THEN [tasks EXCEPT
                        ![t].objectives[objective_index + 1].completed = TRUE]
                ELSE tasks
    /\ ret' = Returned("mark_objective_complete", <<t, objective_index>>, None)

\* Variant of is_task_complete with any() in the place of all().
is_task_complete_any_objective(task) ==
    \E n \in 1..Len(task.objectives) : task.objectives[n].completed

is_task_complete(task) ==
    \A n \in 1..Len(task.objectives) : task.objectives[n].completed

get_incomplete_tasks ==
    SelectSeq(tasks, LAMBDA task : ~is_task_complete(task))

\* indexes a caller may pass: every valid one and one beyond each end
ObjectiveIndexes(t) == (0 - 1)..Len(tasks[t].objectives)

(***************************************************************************)
(* Python dicts.  A dict is a function from its keys; d.update(e) and      *)
(* d[k] = v are Update(d, e) and Update(d, k :> v).  A document is a dict  *)
(* some of whose entries hold a reference to a list object of `lists`      *)
(* instead of a value of their own: a shallow copy of the dict copies the  *)
(* references, and a change of the list shows in every dict that holds it. *)
(***************************************************************************)
EmptyDict == [k \in {} |-> None]

Update(d, e) == e @@ d

Document(fields, shared) == [fields |-> fields, shared |-> shared]

Keys(doc) == DOMAIN doc.fields \cup DOMAIN doc.shared

\* the keys and values read from the document when the list objects are heap
Value(doc, heap) ==
    [k \in Keys(doc) |->
        IF k \in DOMAIN doc.shared THEN heap[doc.shared[k]] ELSE doc.fields[k]]

\* dict.copy()
copy(doc) == Document(doc.fields, doc.shared)

\* doc[key] = value
SetItem(doc, key, value) ==
    Document(Update(doc.fields, key :> value),
             [k \in DOMAIN doc.shared \ {key} |-> doc.shared[k]])

\* doc[key].extend(items), on [doc, heap]: the list object is changed in
\* place
Extend(state, key, items) ==
    IF key \in DOMAIN state.doc.shared
    THEN [doc |-> state.doc,
          heap |-> [state.heap EXCEPT ![state.doc.shared[key]] = @ \o items]]
    ELSE [doc |-> [state.doc EXCEPT !.fields[key] = @ \o items],
          heap |-> state.heap]

\* str.replace(old, new) for a one-character old
RECURSIVE Replace(_, _, _)
Replace(s, old, new) ==
    IF s = "" THEN ""
    ELSE (IF Head(s) = old THEN new ELSE Head(s)) \o Replace(Tail(s), old, new)

(***************************************************************************)
(* environment_factory.py: EnvironmentFactory.                             *)
(***************************************************************************)
\* The keys of a contract file that hold JSON arrays.
ListKeys(json) == DOMAIN json \cap {"observations", "actions"}

\* [contracts, heap]: the map from file stem to document that json.load
\* builds from the files of the contracts directory, every array a list
\* object of its own
_load_base_contracts(directory) ==
    [contracts |->
        [stem \in DOMAIN directory |->
            Document([k \in DOMAIN directory[stem] \ ListKeys(directory[stem]) |->
                          directory[stem][k]],
                     [k \in ListKeys(directory[stem]) |-> <<stem, k>>])],
     heap |->
        [id \in UNION {{<<stem, k>> : k \in ListKeys(directory[stem])} :
                        stem \in DOMAIN directory} |->
            directory[id[1]][id[2]]]]

\* Variant of _select_base_contract without the category mapping: every
\* category gets the default.
_select_base_contract_default_only(category) == "NhEnv"

_select_base_contract(category) ==
    CASE category = COMBAT -> "NhEnv"
      [] category = PVP -> "NhEnv"
      [] category = SKILLING -> "SkillingEnv"
      [] category = TRADING -> "TradingEnv"
      [] category = QUESTING -> "QuestEnv"
      [] category = EXPLORATION -> "ExplorationEnv"
      [] OTHER -> "NhEnv"

\* Variant of TaskInfo that lists only the objectives still open.
TaskInfo_open_objectives(task) ==
    [name |-> task.name,
     category |-> task.category,
     difficulty |-> task.difficulty,
     objectives |->
        [o \in DOMAIN SelectSeq(task.objectives,
                                LAMBDA obj : ~obj.completed) |->
            [description |-> SelectSeq(task.objectives,
                                LAMBDA obj : ~obj.completed)[o].description,
             target |-> SelectSeq(task.objectives,
                                LAMBDA obj : ~obj.completed)[o].target,
             quantity |-> SelectSeq(task.objectives,
                                LAMBDA obj : ~obj.completed)[o].quantity,
             completed |-> FALSE]]]

\* the "task_info" entry of a contract
TaskInfo(task) ==
    [name |-> task.name,
     category |-> task.category,
     difficulty |-> task.difficulty,
     objectives |->
        [n \in 1..Len(task.objectives) |->
            [description |-> task.objectives[n].description,
             target |-> task.objectives[n].target,
             quantity |-> task.objectives[n].quantity,
             completed |-> task.objectives[n].completed]]]

Observation(name, text, type, min, max) ==
    [name |-> name, description |-> text, type |-> type, min |-> min, max |-> max]

ActionItem(name, text) == [name |-> name, description |-> text]

ActionGroup(name, text, actions) ==
    [name |-> name, description |-> text, actions |-> actions]

\* Variant of _generate_task_observations that counts the objectives from 1.
_generate_task_observations_from_one(task) ==
    [n \in 1..Len(task.objectives) |->
        Observation("objective_" \o ToString(n) \o "_progress",
                    "Progress towards: " \o task.objectives[n].description,
                    "discrete", 0, task.objectives[n].quantity)]
    \o (IF task.category = SKILLING
        THEN <<Observation("xp_gained", "Experience gained this episode",
                           "continuous", 0, 10000),
               Observation("skill_level_progress",
                           "Progress towards next skill level",
                           "continuous", 0, 1)>>
        ELSE <<>>)

_generate_task_observations(task) ==
    [n \in 1..Len(task.objectives) |->
        Observation("objective_" \o ToString(n - 1) \o "_progress",
                    "Progress towards: " \o task.objectives[n].description,
                    "discrete", 0, task.objectives[n].quantity)]
    \o (IF task.category = SKILLING
        THEN <<Observation("xp_gained", "Experience gained this episode",
                           "continuous", 0, 10000),
               Observation("skill_level_progress",
                           "Progress towards next skill level",
                           "continuous", 0, 1)>>
        ELSE <<>>)

_generate_task_actions(task) ==
    IF task.category = SKILLING
    THEN <<ActionGroup("skilling_actions", "Actions for skilling tasks",
             <<ActionItem("mine", "Mine a resource"),
               ActionItem("cut_tree", "Cut down a tree"),
               ActionItem("fish", "Catch fish"),
               ActionItem("cook", "Cook food"),
               ActionItem("craft_item", "Craft an item")>>)>>
    ELSE IF task.category = EXPLORATION
    THEN <<ActionGroup("movement_actions", "Actions for exploration tasks",
             <<ActionItem("move_north", "Move north"),
               ActionItem("move_south", "Move south"),
               ActionItem("move_east", "Move east"),
               ActionItem("move_west", "Move west"),
               ActionItem("interact_object", "Interact with object"),
               ActionItem("use_teleport", "Use teleportation")>>)>>
    ELSE <<>>

\* [doc, heap]: the customized contract and the list objects after the
\* extend and the appends
_customize_contract_for_task(base_contract, task, heap) ==
    Let(SetItem(SetItem(copy(base_contract),
                        "name", task.name \o "Env"),
                "description", "Environment for task: " \o task.description),
        LAMBDA contract :
    Let(IF "observations" \in Keys(contract)
        THEN Extend([doc |-> contract, heap |-> heap], "observations",
                    _generate_task_observations(task))
        ELSE [doc |-> contract, heap |-> heap], LAMBDA observed :
    Let(IF "actions" \in Keys(contract)
        THEN Extend(observed, "actions", _generate_task_actions(task))
        ELSE observed, LAMBDA acted :
        [doc |-> SetItem(acted.doc, "task_info", TaskInfo(task)),
         heap |-> acted.heap])))

_create_generic_environment(task) ==
    [name |-> task.name \o "Env",
     description |-> "Generic environment for task: " \o task.description,
     task_info |-> TaskInfo(task),
     observations |->
        <<Observation("player_position", "Player's position in the game world",
                      "discrete", 0, 4096),
          Observation("task_progress", "Overall task completion progress",
                      "continuous", 0, 1)>>,
     actions |->
        <<ActionGroup("basic_actions", "Basic game actions",
            <<ActionItem("wait", "Do nothing"),
              ActionItem("move", "Move player"),
              ActionItem("interact", "Interact with object"),
              ActionItem("use_item", "Use an item")>>)>>]

\* The call returns `contract`; `heap` are the list objects it leaves.  The
\* record kept of the call holds the document, which goes on sharing its
\* lists, and the keys and values it had when it was returned.
ReturnContract(t, task, contract, heap) ==
    /\ lists' = heap
    /\ contracts' = Append(contracts,
                           [task |-> t, task_value |-> task,
                            contract |-> contract,
                            returned |-> Value(contract, heap)])
    /\ ret' = Returned("create_environment_for_task", <<t>>,
                       Value(contract, heap))
    /\ UNCHANGED _base_contracts

create_environment_for_task(t) ==
    \E task \in {tasks[t]} :
    \E base_contract_name \in {_select_base_contract(task.category)} :
        IF base_contract_name \notin DOMAIN _base_contracts
        THEN ReturnContract(t, task,
                            Document(_create_generic_environment(task), EmptyDict),
                            lists)
        ELSE \E made \in {_customize_contract_for_task(
                              copy(_base_contracts[base_contract_name]),
                              task, lists)} :
                ReturnContract(t, task, made.doc, made.heap)

\* Variant of save_environment_contract that lets the error of a failed
\* write through.
save_environment_contract_reraising(c, filename, written) ==
    /\ temp_files' = IF written
                     THEN Update(temp_files, (filename \o ".json")
                                    :> Value(contracts[c].contract, lists))
                     ELSE temp_files
    /\ ret' = IF written
              THEN Returned("save_environment_contract", <<c, filename>>, None)
              ELSE Raised("save_environment_contract", <<c, filename>>,
                          "OSError")
    /\ UNCHANGED <<_base_contracts, lists, contracts>>

\* The contract saved is the one the c-th create_environment_for_task call
\* returned, as it is now; `written` tells whether the file could be opened
\* and written.  An error of the write is logged and the call returns.
save_environment_contract(c, filename, written) ==
    /\ temp_files' = IF written
                     THEN Update(temp_files, (filename \o ".json")
                                    :> Value(contracts[c].contract, lists))
                     ELSE temp_files
    /\ ret' = Returned("save_environment_contract", <<c, filename>>, None)
    /\ UNCHANGED <<_base_contracts, lists, contracts>>

list_available_contracts == DOMAIN _base_contracts

get_contract(name) ==
    IF name \in DOMAIN _base_contracts
    THEN Value(_base_contracts[name], lists)
    ELSE None

(***************************************************************************)
(* config_manager.py: the configuration dataclasses and ConfigManager.     *)
(* Floating point values are kept as the literals of the source.           *)
(***************************************************************************)
AgentConfig ==
    [model_name |-> "GeneralizedAgent", stack_frames |-> 4,
     deterministic |-> FALSE, learning_rate |-> "3e-4", batch_size |-> 32,
     buffer_size |-> 100000, exploration_noise |-> "0.1"]

EnvironmentConfig ==
    [environment_name |-> "GeneralEnv", max_episode_steps |-> 1000,
     reward_scaling |-> "1.0", timeout_penalty |-> "-10.0",
     success_reward |-> "100.0", step_penalty |-> "-0.1"]

TrainingConfig ==
    [experiment_name |-> "experiment", total_timesteps |-> 1000000,
     eval_frequency |-> 10000, checkpoint_frequency |-> 50000,
     num_eval_episodes |-> 10, parallel_envs |-> 4,
     use_tensorboard |-> TRUE, save_best_model |-> TRUE]

ServerConfig ==
    [simulation_host |-> "localhost", simulation_port |-> 43594,
     api_host |-> "127.0.0.1", api_port |-> 9999, connection_timeout |-> 30]

\* OSRSRLConfig(): every section its defaults
OSRSRLConfig ==
    [agent |-> AgentConfig, environment |-> EnvironmentConfig,
     training |-> TrainingConfig, server |-> ServerConfig]

Sections == {"agent", "environment", "training", "server"}

_config_to_dict(config) == [section \in Sections |-> config[section]]

\* a dataclass built from keyword arguments: [raised, value]; a keyword
\* that is no field raises TypeError, a field not given takes its default
Dataclass(defaults, given) ==
    IF DOMAIN given \subseteq DOMAIN defaults
    THEN [raised |-> None, value |-> Update(defaults, given)]
    ELSE [raised |-> "TypeError", value |-> None]

\* [raised, value]
_dict_to_config(data) ==
    Let([section \in Sections |->
            Dataclass(OSRSRLConfig[section],
                      IF section \in DOMAIN data THEN data[section]
                      ELSE EmptyDict)], LAMBDA built :
        IF \E section \in Sections : built[section].raised # None
        THEN [raised |-> "TypeError", value |-> None]
        ELSE [raised |-> None,
              value |-> [section \in Sections |-> built[section].value]])

\* Variant of _update_dict_recursive that does not descend: a section named
\* in updates is replaced by the section of updates.
_update_dict_not_recursive(original, updates) == Update(original, updates)

\* the dict `original` after _update_dict_recursive(original, updates), for
\* dicts of dicts of plain values
_update_dict_recursive(original, updates) ==
    [key \in DOMAIN original \cup DOMAIN updates |->
        IF key \notin DOMAIN updates THEN original[key]
        ELSE IF key \in DOMAIN original THEN Update(original[key], updates[key])
        ELSE updates[key]]

\* The content of <name>.yaml in the configuration directory.
MissingFile == [kind |-> "missing", data |-> EmptyDict]
UnreadableFile == [kind |-> "unreadable", data |-> EmptyDict]
MalformedFile == [kind |-> "malformed", data |-> EmptyDict]
YamlFile(data) == [kind |-> "yaml", data |-> data]

\* create_config(name): [value, configs]
create_config(name, configs) ==
    [value |-> OSRSRLConfig, configs |-> Update(configs, name :> OSRSRLConfig)]

\* save_config(name, config): [raised, configs, files].  written tells
\* whether the file could be written; the store is set after the write only.
save_config(name, config, written, configs, files) ==
    IF written
    THEN [raised |-> None,
          configs |-> Update(configs, name :> config),
          files |-> Update(files, name :> YamlFile(_config_to_dict(config)))]
    ELSE [raised |-> "OSError", configs |-> configs, files |-> files]

\* load_config(name): [raised, value, configs, files]
load_config(name, written, configs, files) ==
    IF files[name].kind = "missing"
    THEN Let(save_config(name, OSRSRLConfig, written, configs, files),
             LAMBDA saved :
                [raised |-> saved.raised,
                 value |-> IF saved.raised = None THEN OSRSRLConfig ELSE None,
                 configs |-> saved.configs, files |-> saved.files])
    ELSE IF files[name].kind = "unreadable"
    THEN [raised |-> "PermissionError", value |-> None,
          configs |-> configs, files |-> files]
    ELSE IF files[name].kind = "malformed"
    THEN [raised |-> "YAMLError", value |-> None,
          configs |-> configs, files |-> files]
    ELSE Let(_dict_to_config(files[name].data), LAMBDA config :
             IF config.raised # None
             THEN [raised |-> config.raised, value |-> None,
                   configs |-> configs, files |-> files]
             ELSE [raised |-> None, value |-> config.value,
                   configs |-> Update(configs, name :> config.value),
                   files |-> files])

get_config(name, configs) ==
    IF name \in DOMAIN configs THEN configs[name] ELSE None

\* update_config(name, updates): [raised, value, configs]
update_config(name, updates, configs) ==
    IF name \notin DOMAIN configs
    THEN [raised |-> "ValueError", value |-> None, configs |-> configs]
    ELSE Let(_dict_to_config(
                 _update_dict_recursive(_config_to_dict(configs[name]), updates)),
             LAMBDA updated_config :
                IF updated_config.raised # None
                THEN [raised |-> updated_config.raised, value |-> None,
                      configs |-> configs]
                ELSE [raised |-> None, value |-> updated_config.value,
                      configs |-> Update(configs, name :> updated_config.value)])

(***************************************************************************)
(* secure_storage.py: SecureCredentialStore.  A Fernet token is the pair   *)
(* of the key it was made with and the data in it; decrypting it with      *)
(* another key raises InvalidToken.                                        *)
(***************************************************************************)
\* the key of ~/.osrs_rl/.key
_fernet == "key"

encrypt(key, data) == [key |-> key, data |-> data]

decrypt(key, token) ==
    IF token.key = key
    THEN [raised |-> None, value |-> token.data]
    ELSE [raised |-> "InvalidToken", value |-> None]

\* s.split(sep, 1) for a one-character sep
split_once(s, sep) ==
    Let(RunEnd(s, 1, CharsOf(s) \ {sep}), LAMBDA i :
        IF i > Len(s) THEN <<s>>
        ELSE <<SubSeq(s, 1, i - 1), SubSeq(s, i + 1, Len(s))>>)

\* The call is added to the record of calls.
CredentialCall(call) ==
    /\ ret' = call
    /\ credential_calls' = Append(credential_calls, call)

\* `written` tells whether the disk takes the write of the credentials file.
store_credentials(username, password, written) ==
    IF Strip(username) = ""
    THEN /\ CredentialCall(Raised("store_credentials",
                                  <<username, password>>, "ValueError"))
         /\ UNCHANGED _credentials_file
    ELSE IF ~written
    THEN /\ CredentialCall(Raised("store_credentials",
                                  <<username, password>>, "ConfigurationError"))
         /\ UNCHANGED _credentials_file
    ELSE /\ _credentials_file'
                = <<encrypt(_fernet, username \o ":" \o password)>>
         /\ CredentialCall(Returned("store_credentials",
                                    <<username, password>>, None))

\* Whatever is raised inside is caught and None is returned.
retrieve_credentials ==
    /\ UNCHANGED _credentials_file
    /\ IF _credentials_file = <<>>
       THEN CredentialCall(Returned("retrieve_credentials", <<>>, None))
       ELSE \E decrypted_data \in {decrypt(_fernet, _credentials_file[1])} :
            IF decrypted_data.raised # None
            THEN CredentialCall(Returned("retrieve_credentials", <<>>, None))
            ELSE \E parts \in {split_once(decrypted_data.value, ":")} :
                 IF Len(parts) # 2
                 THEN CredentialCall(Returned("retrieve_credentials", <<>>, None))
                 ELSE CredentialCall(Returned("retrieve_credentials", <<>>,
                                              <<parts[1], parts[2]>>))

\* `unlinked` tells whether the disk lets the credentials file go.
clear_credentials(unlinked) ==
    IF _credentials_file = <<>>
    THEN /\ CredentialCall(Returned("clear_credentials", <<>>, None))
         /\ UNCHANGED _credentials_file
    ELSE IF ~unlinked
    THEN /\ CredentialCall(Raised("clear_credentials", <<>>,
                                  "ConfigurationError"))
         /\ UNCHANGED _credentials_file
    ELSE /\ _credentials_file' = <<>>
         /\ CredentialCall(Returned("clear_credentials", <<>>, None))

(***************************************************************************)
(* task_training_integrator.py: TaskTrainingIntegrator.                    *)
(***************************************************************************)
Feature(name, type, min, max) ==
    [name |-> name, type |-> type, min |-> min, max |-> max]

_get_combat_contract_components ==
    [observations |->
        <<Feature("hitpoints", "discrete", 0, 99),
          Feature("prayer_points", "discrete", 0, 99),
          Feature("enemy_hitpoints", "discrete", 0, 99),
          Feature("combat_stance", "discrete", 0, 4),
          Feature("weapon_equipped", "discrete", 0, 1000)>>,
     actions |->
        <<ActionGroup("combat_actions", "Combat-related actions",
            <<ActionItem("attack", "Attack target"),
              ActionItem("cast_spell", "Cast magic spell"),
              ActionItem("use_special", "Use special attack"),
              ActionItem("change_stance", "Change combat stance"),
              ActionItem("eat_food", "Consume food"),
              ActionItem("drink_potion", "Drink potion")>>)>>,
     reward_structure |->
        [damage_dealt |-> "1.0", damage_taken |-> "-0.5",
         kill_enemy |-> "100.0", death |-> "-100.0"]]

_get_skilling_contract_components ==
    [observations |->
        <<Feature("skill_xp", "continuous", 0, 200000000),
          Feature("skill_level", "discrete", 1, 99),
          Feature("inventory_space", "discrete", 0, 28),
          Feature("resource_available", "discrete", 0, 1),
          Feature("fatigue", "continuous", 0, 100)>>,
     actions |->
        <<ActionGroup("skilling_actions", "Skilling-related actions",
            <<ActionItem("gather_resource", "Gather natural resource"),
              ActionItem("process_material", "Process gathered materials"),
              ActionItem("bank_items", "Store items in bank"),
              ActionItem("withdraw_items", "Withdraw items from bank"),
              ActionItem("drop_item", "Drop unwanted item"),
              ActionItem("use_tool", "Use skilling tool")>>)>>,
     reward_structure |->
        [xp_gained |-> "1.0", level_up |-> "50.0",
         inventory_full |-> "-5.0", objective_progress |-> "10.0"]]

_get_exploration_contract_components ==
    [observations |->
        <<Feature("position_x", "discrete", 0, 4096),
          Feature("position_y", "discrete", 0, 4096),
          Feature("region_id", "discrete", 0, 65535),
          Feature("destination_distance", "continuous", 0, 100),
          Feature("path_blocked", "discrete", 0, 1)>>,
     actions |->
        <<ActionGroup("movement_actions", "Movement and exploration actions",
            <<ActionItem("move_north", "Move north"),
              ActionItem("move_south", "Move south"),
              ActionItem("move_east", "Move east"),
              ActionItem("move_west", "Move west"),
              ActionItem("run_toggle", "Toggle running"),
              ActionItem("use_teleport", "Use teleportation method")>>)>>,
     reward_structure |->
        [distance_reduced |-> "1.0", reached_destination |-> "100.0",
         got_lost |-> "-10.0", efficient_path |-> "5.0"]]

_get_generic_contract_components ==
    [observations |->
        <<Feature("game_state", "discrete", 0, 1000),
          Feature("progress", "continuous", 0, 1)>>,
     actions |->
        <<ActionGroup("basic_actions", "Basic game actions",
            <<ActionItem("wait", "Do nothing"),
              ActionItem("interact", "Interact with object"),
              ActionItem("move", "Move character"),
              ActionItem("use_item", "Use an item")>>)>>,
     reward_structure |->
        [progress_made |-> "1.0", objective_completed |-> "50.0",
         time_penalty |-> "-0.1"]]

_create_environment_contract(task) ==
    Update(
        [name |-> Replace(task.name, " ", "") \o "Env",
         description |-> "Environment for task: " \o task.description,
         category |-> task.category,
         difficulty |-> task.difficulty,
         observations |-> <<>>,
         actions |-> <<>>,
         reward_structure |-> EmptyDict,
         task_metadata |->
            [objectives |->
                [n \in 1..Len(task.objectives) |->
                    [description |-> task.objectives[n].description,
                     target |-> task.objectives[n].target,
                     quantity |-> task.objectives[n].quantity]],
             requirements |->
                [skill_levels |-> task.requirements.skill_levels,
                 items |-> task.requirements.items,
                 quests_completed |-> task.requirements.quests_completed]]],
        IF task.category = COMBAT \/ task.category = PVP
        THEN _get_combat_contract_components
        ELSE IF task.category = SKILLING THEN _get_skilling_contract_components
        ELSE IF task.category = EXPLORATION
        THEN _get_exploration_contract_components
        ELSE _get_generic_contract_components)

contracts_dir == "contracts/environments/"

\* _save_temp_contract(contract): [raised, value, files].  written tells
\* whether the file could be opened and written; no error is handled here.
_save_temp_contract(contract, written, files) ==
    Let("temp_" \o contract.name \o ".json", LAMBDA temp_file :
        IF written
        THEN [raised |-> None, value |-> contracts_dir \o temp_file,
              files |-> Update(files, temp_file :> contract)]
        ELSE [raised |-> "OSError", value |-> None, files |-> files])

base_steps == 1000

\* the multipliers of category_multipliers, in tenths
category_multipliers(category) ==
    CASE category = COMBAT -> 10
      [] category = PVP -> 12
      [] category = SKILLING -> 20
      [] category = EXPLORATION -> 15
      [] category = QUESTING -> 30
      [] category = TRADING -> 8
      [] OTHER -> 10

\* Variant of _estimate_episode_steps that leaves the category out.
_estimate_episode_steps_without_category(task) ==
    base_steps * Len(task.objectives)

\* int() of the floating point product, exact for these operands
_estimate_episode_steps(task) ==
    (base_steps * Len(task.objectives) * category_multipliers(task.category))
        \div 10

\* str.title() of a category value, a single word of lower-case letters
title(word) == Capitalize(word)

\* task_config_updates of _create_training_config
task_config_updates(task) ==
    [training |->
        Update([experiment_name |-> Replace(task.name, " ", "_") \o "_training"],
               IF task.category = SKILLING
               THEN [total_timesteps |-> 2000000] ELSE EmptyDict),
     environment |->
        Update([environment_name |-> Replace(task.name, " ", "") \o "Env",
                max_episode_steps |-> _estimate_episode_steps(task)],
               IF task.category = SKILLING
               THEN [step_penalty |-> "-0.05"] ELSE EmptyDict),
     agent |->
        Update([model_name |-> title(task.category) \o "Agent"],
               IF task.category = EXPLORATION
               THEN [exploration_noise |-> "0.2"] ELSE EmptyDict)]

\* _create_training_config(task, base_config_name):
\* [raised, value, configs, files, load_raised].  Whatever load_config raises
\* is caught; what update_config raises is not.
_create_training_config(task, base_config_name, written, configs, files) ==
    Let(load_config(base_config_name, written, configs, files), LAMBDA loaded :
    Let(update_config(base_config_name, task_config_updates(task),
                      loaded.configs), LAMBDA updated :
        [raised |-> updated.raised,
         value |-> IF updated.raised # None THEN None
                   ELSE [config_name |->
                            base_config_name \o "_"
                                \o Replace(task.name, " ", "_"),
                         config_data |-> updated.value],
         configs |-> updated.configs,
         files |-> loaded.files,
         load_raised |-> loaded.raised]))

\* The record kept of a prepare_training_for_task call: what it was called
\* on, which disk operations failed in it, and how it ended.
Prepared(t, task, name, contract_failed, config_failed, load_raised, raised, value) ==
    [task |-> t, task_value |-> task, base_config_name |-> name,
     contract_write_failed |-> contract_failed,
     config_write_failed |-> config_failed,
     load_raised |-> load_raised, raised |-> raised, value |-> value]

\* contract_written and config_written tell whether the disk takes the write
\* of the temp contract and of the default configuration file.
prepare_training_for_task(t, base_config_name, contract_written, config_written) ==
    \E task \in {tasks[t]} :
    \E saved \in {_save_temp_contract(_create_environment_contract(task),
                                      contract_written, temp_files)} :
        IF saved.raised # None
        THEN /\ prepared' = Append(prepared,
                    Prepared(t, task, base_config_name, TRUE, FALSE, None,
                             saved.raised, None))
             /\ ret' = Raised("prepare_training_for_task",
                              <<t, base_config_name>>, saved.raised)
             /\ UNCHANGED <<_configs, config_files, temp_files>>
        ELSE \E made \in {_create_training_config(task, base_config_name,
                              config_written, _configs, config_files)} :
             \E result \in {IF made.raised # None THEN None
                            ELSE [environment_contract_path |-> saved.value,
                                  training_config |-> made.value,
                                  task_name |-> task.name,
                                  task_category |-> task.category]} :
                /\ temp_files' = saved.files
                /\ _configs' = made.configs
                /\ config_files' = made.files
                /\ prepared' = Append(prepared,
                        Prepared(t, task, base_config_name, FALSE,
                                 config_files[base_config_name].kind = "missing"
                                    /\ ~config_written,
                                 made.load_raised, made.raised, result))
                /\ ret' = [op |-> "prepare_training_for_task",
                           args |-> <<t, base_config_name>>,
                           raised |-> made.raised, value |-> result]

(***************************************************************************)
(* The inputs.                                                             *)
(***************************************************************************)
Vocabulary == {"Kill", "05", "goblins", "killed", "cut", "skill", ""}

WordLists == UNION {[1..n -> Vocabulary] : n \in 0..MaxWords}

ExampleDescriptions ==
    {"Kill 10 goblins in Lumbridge",
     "Kill 5 goblins, mine 3 ore",
     "10 goblins killed",
     "mine 3 ore",
     "find ore",
     ""}

\* Descriptions in which the rules of _determine_category and
\* _determine_difficulty meet, and descriptions with level phrases.
RuleDescriptions ==
    {"quest to buy", "buy and find", "find pvping", "skilled player",
     "go to pvp", "sell 2 fish", "explore", "a boss raid", "some ore",
     "highlevel", "a high level", "medium boss",
     "cut 1 a,cut 2 b,cut 3 c,cut 4 d",
     "05 attack level", "need 40 mining skill", "7 ore level",
     "1 magic skill 2 magic levels", "3 Prayer  level", "9 hunter"}

Descriptions ==
    {Join(ws) : ws \in WordLists} \cup ExampleDescriptions \cup RuleDescriptions

\* One description for each category the examples do not reach, and one of
\* a skilling task of three objectives.
CategoryDescriptions ==
    {"do a quest",
     "buy ore",
     "go pvping",
     "cut 1 oak, cut 2 yew, cut 3 elm"}

\* Descriptions of more than five words: the task name is made of the
\* first five.
LongDescriptions ==
    {"a b c d e f", "a b c d e g", "a b c d e", "kill 1 rat in a big cave"}

\* Contract files the contracts directory may hold.
NhEnvFile ==
    [name |-> "NhEnv",
     description |-> "No honor PvP environment",
     observations |->
        <<Observation("player_hitpoints", "Hitpoints of the player",
                      "discrete", 0, 99)>>,
     actions |->
        <<ActionGroup("attack", "Attack styles",
            <<ActionItem("melee", "Attack with melee")>>)>>]

SkillingEnvFile ==
    [name |-> "SkillingEnv",
     description |-> "Skilling environment",
     observations |->
        <<Observation("inventory", "Free inventory slots", "discrete", 0, 28)>>,
     actions |-> <<>>]

MetadataOnlyFile == [name |-> "NhEnv", description |-> "No honor PvP environment"]

ContractDirectories ==
    {EmptyDict,
     "NhEnv" :> NhEnvFile,
     "NhEnv" :> MetadataOnlyFile,
     ("NhEnv" :> NhEnvFile) @@ ("SkillingEnv" :> SkillingEnvFile)}

\* File names a contract is saved under: a new one, and that of a base
\* contract.
ContractFileNames == {"saved", "NhEnv"}

\* Names and contents of the configuration files.
ConfigNames == {"default"}

FileContents ==
    {MissingFile, UnreadableFile, MalformedFile,
     YamlFile(_config_to_dict(OSRSRLConfig)),
     YamlFile([training |-> [total_timesteps |-> 500000]]),
     YamlFile([agent |-> [hidden_size |-> 64]])}

\* Usernames and passwords typed into the credentials form, and the
\* credentials files a previous session may have left.
Usernames == {"", " ", "bob", "a:b"}

Passwords == {"pw", "p:w"}

CredentialFiles ==
    {<<>>, <<encrypt(_fernet, "bob:pw")>>, <<encrypt("another key", "bob:pw")>>}

(***************************************************************************)
(* Construction of the components.                                         *)
(***************************************************************************)
\* EnvironmentFactory.__init__ over a contracts directory
EnvironmentFactoryInit(directory) ==
    /\ _base_contracts = _load_base_contracts(directory).contracts
    /\ lists = _load_base_contracts(directory).heap
    /\ contracts = <<>>

\* ConfigManager.__init__ and TaskTrainingIntegrator.__init__ over a
\* configuration directory
IntegratorInit(files) ==
    /\ _configs = EmptyDict
    /\ config_files = files
    /\ temp_files = EmptyDict
    /\ prepared = <<>>

\* SecureCredentialStore.__init__ with the credentials file a previous
\* session left
SecureCredentialStoreInit(file) ==
    /\ _credentials_file = file
    /\ credential_calls = <<>>

(***************************************************************************)
(* ParseSpec: a session in which every task is created from one            *)
(* description, any of Descriptions.                                       *)
(***************************************************************************)
ParseInit ==
    /\ description \in Descriptions
    /\ TaskManagerInit
    /\ EnvironmentFactoryInit(EmptyDict)
    /\ IntegratorInit([name \in ConfigNames |-> MissingFile])
    /\ SecureCredentialStoreInit(<<>>)

CreateTyped ==
    /\ Len(tasks) < MaxSessionTasks
    /\ create_task_from_description(description)
    /\ UNCHANGED <<description, storage_vars, factory_vars, integrator_vars>>

MarkObjective ==
    /\ \E t \in 1..Len(tasks) : \E i \in ObjectiveIndexes(t) :
            mark_objective_complete(t, i)
    /\ UNCHANGED <<description, storage_vars, factory_vars, integrator_vars>>

ParseNext == CreateTyped \/ MarkObjective

ParseSpec == ParseInit /\ [][ParseNext]_vars

(***************************************************************************)
(* Spec: a session of the TaskManager over the example descriptions, every *)
(* operation of the manager called in any order.                           *)
(***************************************************************************)
Init ==
    /\ description = ""
    /\ TaskManagerInit
    /\ EnvironmentFactoryInit(EmptyDict)
    /\ IntegratorInit([name \in ConfigNames |-> MissingFile])
    /\ SecureCredentialStoreInit(<<>>)

CreateTask ==
    /\ Len(tasks) < MaxTasks
    /\ \E text \in ExampleDescriptions : create_task_from_description(text)
    /\ UNCHANGED <<description, storage_vars, factory_vars, integrator_vars>>

GetTasksByCategory ==
    /\ \E category \in TaskCategory :
            ret' = Returned("get_tasks_by_category", <<category>>,
                            get_tasks_by_category(category))
    /\ UNCHANGED <<description, storage_vars, tasks, factory_vars, integrator_vars>>

GetTasksByDifficulty ==
    /\ \E difficulty \in TaskDifficulty :
            ret' = Returned("get_tasks_by_difficulty", <<difficulty>>,
                            get_tasks_by_difficulty(difficulty))
    /\ UNCHANGED <<description, storage_vars, tasks, factory_vars, integrator_vars>>

IsTaskComplete ==
    /\ \E t \in 1..Len(tasks) :
            ret' = Returned("is_task_complete", <<t>>,
                            is_task_complete(tasks[t]))
    /\ UNCHANGED <<description, storage_vars, tasks, factory_vars, integrator_vars>>

GetIncompleteTasks ==
    /\ ret' = Returned("get_incomplete_tasks", <<>>, get_incomplete_tasks)
    /\ UNCHANGED <<description, storage_vars, tasks, factory_vars, integrator_vars>>

Next ==
    \/ CreateTask
    \/ MarkObjective
    \/ GetTasksByCategory
    \/ GetTasksByDifficulty
    \/ IsTaskComplete
    \/ GetIncompleteTasks

Spec == Init /\ [][Next]_vars

(***************************************************************************)
(* FactorySpec: tasks of the registry are given to an EnvironmentFactory   *)
(* constructed over any of ContractDirectories.                            *)
(***************************************************************************)
FactoryInit ==
    /\ description = ""
    /\ TaskManagerInit
    /\ \E directory \in ContractDirectories : EnvironmentFactoryInit(directory)
    /\ IntegratorInit([name \in ConfigNames |-> MissingFile])
    /\ SecureCredentialStoreInit(<<>>)

CreateExampleTask ==
    /\ Len(tasks) < MaxFactoryTasks
    /\ \E text \in ExampleDescriptions \cup CategoryDescriptions :
            create_task_from_description(text)
    /\ UNCHANGED <<description, storage_vars, factory_vars, integrator_vars>>

CreateEnvironment ==
    /\ Len(contracts) < MaxCalls
    /\ \E t \in 1..Len(tasks) : create_environment_for_task(t)
    /\ UNCHANGED <<description, storage_vars, tasks, integrator_vars>>

SaveContract ==
    /\ \E c \in 1..Len(contracts) : \E filename \in ContractFileNames :
       \E written \in BOOLEAN :
            save_environment_contract(c, filename, written)
    /\ UNCHANGED <<description, storage_vars, tasks,
                   _configs, config_files, prepared>>

FactoryNext ==
    CreateExampleTask \/ MarkObjective \/ CreateEnvironment \/ SaveContract

FactorySpec == FactoryInit /\ [][FactoryNext]_vars

(***************************************************************************)
(* IntegratorSpec: tasks of the registry are given to a                    *)
(* TaskTrainingIntegrator over a fresh ConfigManager, the configuration    *)
(* directory holding any of FileContents; a write to disk may fail.        *)
(***************************************************************************)
IntegratorSpecInit ==
    /\ description = ""
    /\ TaskManagerInit
    /\ EnvironmentFactoryInit(EmptyDict)
    /\ \E files \in [ConfigNames -> FileContents] : IntegratorInit(files)
    /\ SecureCredentialStoreInit(<<>>)

CreateConfig ==
    /\ \E name \in ConfigNames :
        /\ _configs' = create_config(name, _configs).configs
        /\ ret' = Returned("create_config", <<name>>,
                           create_config(name, _configs).value)
    /\ UNCHANGED <<description, storage_vars, tasks, factory_vars,
                   config_files, temp_files, prepared>>

PrepareTraining ==
    /\ Len(prepared) < MaxPrepares
    /\ \E t \in 1..Len(tasks) : \E base_config_name \in ConfigNames :
       \E contract_written \in BOOLEAN : \E config_written \in BOOLEAN :
            prepare_training_for_task(t, base_config_name,
                                      contract_written, config_written)
    /\ UNCHANGED <<description, storage_vars, tasks, factory_vars>>

IntegratorNext ==
    CreateExampleTask \/ MarkObjective \/ CreateConfig \/ PrepareTraining

IntegratorSpec == IntegratorSpecInit /\ [][IntegratorNext]_vars

(***************************************************************************)
(* StoreSpec: the integrator is given the tasks of a registry of up to     *)
(* MaxTasks tasks, one after the other, over the same ConfigManager.       *)
(***************************************************************************)
StoreNext == CreateTask \/ CreateConfig \/ PrepareTraining

StoreSpec == IntegratorSpecInit /\ [][StoreNext]_vars

(***************************************************************************)
(* TempFileSpec: the integrator is given tasks of long descriptions, one   *)
(* after the other; the temp contract files stay in the contracts          *)
(* directory.                                                              *)
(***************************************************************************)
CreateLongTask ==
    /\ Len(tasks) < MaxTasks
    /\ \E text \in LongDescriptions : create_task_from_description(text)
    /\ UNCHANGED <<description, storage_vars, factory_vars, integrator_vars>>

TempFileNext == CreateLongTask \/ PrepareTraining

TempFileSpec == IntegratorSpecInit /\ [][TempFileNext]_vars

(***************************************************************************)
(* SessionSpec: the three components constructed side by side, as the      *)
(* demonstration script does, over a contracts directory that holds NhEnv  *)
(* and an empty configuration directory; every operation of the            *)
(* TaskManager, the EnvironmentFactory and the TaskTrainingIntegrator is   *)
(* called in any order.                                                    *)
(***************************************************************************)
SessionInit ==
    /\ description = ""
    /\ TaskManagerInit
    /\ EnvironmentFactoryInit("NhEnv" :> NhEnvFile)
    /\ IntegratorInit([name \in ConfigNames |-> MissingFile])
    /\ SecureCredentialStoreInit(<<>>)

SessionNext ==
    \/ CreateExampleTask
    \/ MarkObjective
    \/ GetTasksByCategory
    \/ GetTasksByDifficulty
    \/ IsTaskComplete
    \/ GetIncompleteTasks
    \/ CreateEnvironment
    \/ PrepareTraining

SessionSpec == SessionInit /\ [][SessionNext]_vars

(***************************************************************************)
(* CredentialSpec: a SecureCredentialStore over the credentials file a     *)
(* previous session left; a write to disk or an unlink may fail.           *)
(***************************************************************************)
CredentialInit ==
    /\ description = ""
    /\ TaskManagerInit
    /\ EnvironmentFactoryInit(EmptyDict)
    /\ IntegratorInit([name \in ConfigNames |-> MissingFile])
    /\ \E file \in CredentialFiles : SecureCredentialStoreInit(file)

StoreCredentials ==
    /\ Len(credential_calls) < MaxCredentialCalls
    /\ \E username \in Usernames : \E password \in Passwords :
       \E written \in BOOLEAN :
            store_credentials(username, password, written)
    /\ UNCHANGED <<description, tasks, factory_vars, integrator_vars>>

RetrieveCredentials ==
    /\ Len(credential_calls) < MaxCredentialCalls
    /\ retrieve_credentials
    /\ UNCHANGED <<description, tasks, factory_vars, integrator_vars>>

ClearCredentials ==
    /\ Len(credential_calls) < MaxCredentialCalls
    /\ \E unlinked \in BOOLEAN : clear_credentials(unlinked)
    /\ UNCHANGED <<description, tasks, factory_vars, integrator_vars>>

CredentialNext == StoreCredentials \/ RetrieveCredentials \/ ClearCredentials

CredentialSpec == CredentialInit /\ [][CredentialNext]_vars

(***************************************************************************)
(* Properties.                                                             *)
(***************************************************************************)

\* C1: parse_task never fails: whatever the description, also one of the
\* shape "<number> <words> <past-tense verb>", the call returns a Task and
\* raises no error.  (ParseSpec)
C1_ParseTaskNeverRaises ==
    ret.op = "create_task_from_description" => ret.raised = None

\* C2: the Task parsed from any description has at least one objective, and
\* after any sequence of create_task_from_description and
\* mark_objective_complete calls every task of the registry has at least
\* one objective.  (ParseSpec)
C2_ObjectivesNeverEmpty ==
    /\ (ret.op = "create_task_from_description" /\ ret.raised = None)
            => Len(ret.value.objectives) >= 1
    /\ \A t \in 1..Len(tasks) : Len(tasks[t].objectives) >= 1

\* C2, reached: a description without an objective pattern has been parsed
\* into a task whose only objective is the fallback, and that objective has
\* since been marked.
C2_FallbackObjectiveMarked ==
    /\ ret.op = "mark_objective_complete"
    /\ Len(tasks) = 1
    /\ tasks[1].description = "goblins skill"
    /\ Len(tasks[1].objectives) = 1
    /\ tasks[1].objectives[1].target = "general"
    /\ tasks[1].objectives[1].completed

\* C3: two create_environment_for_task calls on the same task, the task not
\* changed in between, return contracts with the same keys and values, on
\* the customized and on the generic path.  (FactorySpec)
C3_SameTaskSameContract ==
    \A i \in 1..Len(contracts) : \A j \in 1..Len(contracts) :
        (contracts[i].task = contracts[j].task
            /\ contracts[i].task_value = contracts[j].task_value)
        => contracts[i].returned = contracts[j].returned

\* C4: prepare_training_for_task raises nothing when load_config fails on an
\* unreadable or malformed configuration file: it returns its result
\* bundle.  (IntegratorSpec)
C4_LoadFailureStillReturns ==
    \A n \in 1..Len(prepared) :
        prepared[n].load_raised \in {"PermissionError", "YAMLError", "TypeError"}
        => prepared[n].raised = None

\* C5: when a write to disk fails during prepare_training_for_task, that of
\* the temp contract file or that of the default configuration file that
\* load_config writes for a missing file, no error leaves the call and the
\* result is returned.  (IntegratorSpec)
C5_WriteFailureStillReturns ==
    \A n \in 1..Len(prepared) :
        (prepared[n].contract_write_failed \/ prepared[n].config_write_failed)
        => prepared[n].raised = None

\* C6: a description whose whitespace-delimited words hold a combat keyword
\* and a skilling keyword is parsed into a task of category COMBAT.
\* (ParseSpec)
C6_CombatBeatsSkilling ==
    (/\ ret.op = "create_task_from_description"
     /\ \E words \in {Range(Split(Strip(Lower(ret.args[1]))))} :
            /\ words \cap _combat_keywords # {}
            /\ words \cap _skilling_keywords # {})
    => (ret.raised = None /\ ret.value.category = COMBAT)

\* C7: "Kill 10 goblins in Lumbridge" is parsed into a COMBAT task with
\* exactly one objective, of target "goblins" and quantity 10.  (ParseSpec)
C7_KillTenGoblins ==
    (ret.op = "create_task_from_description"
        /\ ret.args[1] = "Kill 10 goblins in Lumbridge")
    => /\ ret.raised = None
       /\ ret.value.category = COMBAT
       /\ Len(ret.value.objectives) = 1
       /\ ret.value.objectives[1].target = "goblins"
       /\ ret.value.objectives[1].quantity = 10

\* C8: the empty description is parsed into a task of category UNKNOWN and
\* difficulty BEGINNER with exactly one objective, of target "general",
\* quantity 1 and empty description.  (ParseSpec)
C8_EmptyDescription ==
    (ret.op = "create_task_from_description" /\ ret.args[1] = "")
    => /\ ret.raised = None
       /\ ret.value.category = UNKNOWN
       /\ ret.value.difficulty = BEGINNER
       /\ Len(ret.value.objectives) = 1
       /\ ret.value.objectives[1].target = "general"
       /\ ret.value.objectives[1].quantity = 1
       /\ ret.value.objectives[1].description = ""

\* C8, reached: the empty description has been parsed and its task is in
\* the registry.
C8_EmptyDescriptionParsed ==
    /\ description = ""
    /\ ret.op = "create_task_from_description"
    /\ ret.args[1] = ""
    /\ Len(tasks) = 1
    /\ tasks[1] = ret.value

\* C9: a mark_objective_complete(task, i) step with 0 <= i <
\* len(task.objectives) sets the completed flag of objective i and changes
\* nothing else: not the other fields of that objective, not the other
\* objectives, not the other fields of the task, not the other tasks.  (Spec)
C9_MarkSetsOnlyThatFlag ==
    [][\A t \in 1..Len(tasks) : \A i \in 0..(Len(tasks[t].objectives) - 1) :
        (ret'.op = "mark_objective_complete" /\ ret'.args = <<t, i>>)
        => /\ Len(tasks') = Len(tasks)
           /\ \A u \in 1..Len(tasks) : u # t => tasks'[u] = tasks[u]
           /\ \A field \in DOMAIN tasks[t] \ {"objectives"} :
                tasks'[t][field] = tasks[t][field]
           /\ Len(tasks'[t].objectives) = Len(tasks[t].objectives)
           /\ \A n \in 1..Len(tasks[t].objectives) :
                n # i + 1 => tasks'[t].objectives[n] = tasks[t].objectives[n]
           /\ tasks'[t].objectives[i + 1].completed
           /\ \A field \in DOMAIN tasks[t].objectives[i + 1] \ {"completed"} :
                tasks'[t].objectives[i + 1][field]
                    = tasks[t].objectives[i + 1][field]
      ]_vars

\* C9, reached: in a registry of two tasks the second objective of a task
\* of two objectives has been marked, its first objective still open.
C9_SecondObjectiveMarked ==
    /\ ret.op = "mark_objective_complete"
    /\ Len(tasks) = 2
    /\ ret.args[2] = 1
    /\ Len(tasks[ret.args[1]].objectives) = 2
    /\ tasks[ret.args[1]].objectives[2].completed
    /\ ~tasks[ret.args[1]].objectives[1].completed

\* C10: a mark_objective_complete(task, index) step with index < 0 or
\* index >= len(task.objectives) raises no error and leaves every task of
\* the registry as it was.  (Spec)
C10_OutOfRangeIsIgnored ==
    [][(/\ ret'.op = "mark_objective_complete"
        /\ ret'.args[1] \in 1..Len(tasks)
        /\ \/ ret'.args[2] < 0
           \/ ret'.args[2] >= Len(tasks[ret'.args[1]].objectives))
       => (tasks' = tasks /\ ret'.raised = None)
      ]_vars

\* C10, reached: index -1 has been passed for a task that still has an
\* open objective.
C10_NegativeIndexPassed ==
    /\ ret.op = "mark_objective_complete"
    /\ ret.args[2] < 0
    /\ ret.raised = None
    /\ ~is_task_complete(tasks[ret.args[1]])

\* C11: the objectives list under "task_info" of the contract that
\* create_environment_for_task(task) returns has the length of
\* task.objectives and, position by position, the quantity, target,
\* description and completed flag the task's objective has at the call, on
\* the customized and on the generic path.  (FactorySpec)
C11_TaskInfoMirrorsObjectives ==
    \A c \in 1..Len(contracts) :
        /\ Len(contracts[c].returned.task_info.objectives)
                = Len(contracts[c].task_value.objectives)
        /\ \A n \in 1..Len(contracts[c].task_value.objectives) :
             \A field \in {"quantity", "target", "description", "completed"} :
                contracts[c].returned.task_info.objectives[n][field]
                    = contracts[c].task_value.objectives[n][field]

\* C11, reached: a task of two objectives has been given to the factory
\* twice, its first objective marked in between; the first call took the
\* customized path.
C11_MarkedBetweenCalls ==
    /\ Len(contracts) = 2
    /\ "NhEnv" \in DOMAIN _base_contracts
    /\ Len(contracts[1].task_value.objectives) = 2
    /\ ~contracts[1].task_value.objectives[1].completed
    /\ contracts[2].task_value.objectives[1].completed
    /\ contracts[2].returned.task_info.objectives[1].completed
    /\ contracts[2].returned.description
            = "Environment for task: kill 5 goblins, mine 3 ore"

\* C12: when the base-contract name mapped from the task's category (COMBAT
\* and PVP to NhEnv, SKILLING to SkillingEnv, TRADING to TradingEnv, QUESTING
\* to QuestEnv, EXPLORATION to ExplorationEnv, any other to NhEnv) is not a
\* key of the loaded contract map, create_environment_for_task raises no
\* error and returns the generic contract, whose observations are exactly
\* player_position and task_progress.  (FactorySpec)
C12_GenericWhenMappedNameAbsent ==
    (/\ ret.op = "create_environment_for_task"
     /\ \E category \in {tasks[ret.args[1]].category} :
            (CASE category \in {COMBAT, PVP} -> "NhEnv"
               [] category = SKILLING -> "SkillingEnv"
               [] category = TRADING -> "TradingEnv"
               [] category = QUESTING -> "QuestEnv"
               [] category = EXPLORATION -> "ExplorationEnv"
               [] OTHER -> "NhEnv") \notin list_available_contracts)
    => /\ ret.raised = None
       /\ DOMAIN ret.value
            = {"name", "description", "task_info", "observations", "actions"}
       /\ [n \in DOMAIN ret.value.observations |->
                ret.value.observations[n].name]
            = <<"player_position", "task_progress">>
       /\ [n \in DOMAIN ret.value.actions |-> ret.value.actions[n].name]
            = <<"basic_actions">>
       /\ ret.value.name = tasks[ret.args[1]].name \o "Env"
       /\ ret.value.description
            = "Generic environment for task: "
                \o tasks[ret.args[1]].description

\* C12, reached: the contract map holds NhEnv and nothing else, and the
\* factory has returned a contract for a SKILLING task.
C12_SkillingWithoutSkillingEnv ==
    /\ ret.op = "create_environment_for_task"
    /\ ret.raised = None
    /\ tasks[ret.args[1]].category = SKILLING
    /\ list_available_contracts = {"NhEnv"}
    /\ "observations" \in DOMAIN get_contract("NhEnv")
    /\ ret.value.observations[1].name = "player_position"

\* C13: _estimate_episode_steps(task) is floor(1000 * len(task.objectives)
\* * m), m being 1.0 for COMBAT, 1.2 for PVP, 2.0 for SKILLING, 1.5 for
\* EXPLORATION, 3.0 for QUESTING, 0.8 for TRADING and 1.0 for UNKNOWN; a
\* SKILLING task of three objectives gives 6000; and the training
\* configuration that prepare_training_for_task returns has this value as
\* environment.max_episode_steps.  The multipliers are in tenths.
\* (IntegratorSpec)
C13_EpisodeStepsEstimate ==
    /\ \A t \in 1..Len(tasks) :
        \E m \in {CASE tasks[t].category = COMBAT -> 10
                    [] tasks[t].category = PVP -> 12
                    [] tasks[t].category = SKILLING -> 20
                    [] tasks[t].category = EXPLORATION -> 15
                    [] tasks[t].category = QUESTING -> 30
                    [] tasks[t].category = TRADING -> 8
                    [] tasks[t].category = UNKNOWN -> 10} :
            /\ _estimate_episode_steps(tasks[t])
                    = (1000 * Len(tasks[t].objectives) * m) \div 10
            /\ (tasks[t].category = SKILLING /\ Len(tasks[t].objectives) = 3)
                    => _estimate_episode_steps(tasks[t]) = 6000
    /\ \A n \in 1..Len(prepared) :
        prepared[n].raised = None
        => prepared[n].value.training_config.config_data
                .environment.max_episode_steps
            = _estimate_episode_steps(prepared[n].task_value)

\* C13, reached: prepare_training_for_task has returned for a SKILLING task
\* of three objectives, the base configuration loaded from a file that sets
\* another number of timesteps.
C13_SkillingThreeObjectivesPrepared ==
    /\ ret.op = "prepare_training_for_task"
    /\ ret.raised = None
    /\ tasks[ret.args[1]].category = SKILLING
    /\ Len(tasks[ret.args[1]].objectives) = 3
    /\ ret.value.training_config.config_data.environment.max_episode_steps
            = 6000
    /\ config_files["default"]
            = YamlFile([training |-> [total_timesteps |-> 500000]])
    /\ ret.value.training_config.config_data.training.total_timesteps
            = 2000000

\* C14: base contracts are read-only: no create_environment_for_task call
\* changes the document get_contract(name) returns for a loaded name, so
\* after any sequence of calls get_contract(name) is the document loaded
\* when the factory was constructed.  (FactorySpec)
C14_BaseContractsReadOnly ==
    [][ret'.op = "create_environment_for_task"
       => \A name \in list_available_contracts :
            get_contract(name)' = get_contract(name)
      ]_vars

\* C15: a create_task_from_description call that returns appends the task it
\* returns to the end of the registry and leaves the tasks before it where
\* they were, so the registry holds the created tasks in creation order;
\* get_tasks_by_category(c) and get_tasks_by_difficulty(d) leave the
\* registry as it is and return exactly its tasks of that category or
\* difficulty, in registry order.  (Spec)
C15_RegistryOrderAndFilters ==
    [][/\ (ret'.op = "create_task_from_description" /\ ret'.raised = None)
            => /\ Len(tasks') = Len(tasks) + 1
               /\ \A t \in 1..Len(tasks) : tasks'[t] = tasks[t]
               /\ tasks'[Len(tasks')] = ret'.value
       /\ ret'.op \in {"get_tasks_by_category", "get_tasks_by_difficulty"}
            => /\ tasks' = tasks
               /\ ret'.raised = None
               /\ \E matching \in {{t \in 1..Len(tasks) :
                        IF ret'.op = "get_tasks_by_category"
                        THEN tasks[t].category = ret'.args[1]
                        ELSE tasks[t].difficulty = ret'.args[1]}} :
                    /\ Len(ret'.value) = Cardinality(matching)
                    /\ \A t \in matching :
                        ret'.value[Cardinality({u \in matching : u <= t})]
                            = tasks[t]
      ]_vars

\* C15, reached: the registry holds two different COMBAT tasks, the second
\* created after the first, and get_tasks_by_category(COMBAT) has returned
\* the two in that order.
C15_TwoCombatTasksReturned ==
    /\ ret.op = "get_tasks_by_category"
    /\ ret.args = <<COMBAT>>
    /\ Len(tasks) = 2
    /\ tasks[1].description = "kill 5 goblins, mine 3 ore"
    /\ tasks[2].description = "kill 10 goblins in lumbridge"
    /\ ret.value = <<tasks[1], tasks[2]>>

\* C16: once a task is in the registry, no step of the TaskManager, the
\* EnvironmentFactory or the TaskTrainingIntegrator changes its name,
\* description, category, difficulty, requirements or any other field, nor
\* the number of its objectives, nor an objective's description, target,
\* quantity or location; only an objective's completed flag can change.
\* (SessionSpec)
C16_OnlyCompletedChanges ==
    [][/\ Len(tasks') >= Len(tasks)
       /\ \A t \in 1..Len(tasks) :
            /\ \A field \in DOMAIN tasks[t] \ {"objectives"} :
                    tasks'[t][field] = tasks[t][field]
            /\ Len(tasks'[t].objectives) = Len(tasks[t].objectives)
            /\ \A n \in 1..Len(tasks[t].objectives) :
                \A field \in DOMAIN tasks[t].objectives[n] \ {"completed"} :
                    tasks'[t].objectives[n][field]
                        = tasks[t].objectives[n][field]
      ]_vars

\* C16, reached: a task of two objectives has gone through
\* create_environment_for_task on the customized path, a mark of its second
\* objective and prepare_training_for_task, and a query came last.
C16_TaskThroughAllComponents ==
    /\ ret.op = "get_incomplete_tasks"
    /\ Len(tasks) = 1
    /\ Len(tasks[1].objectives) = 2
    /\ tasks[1].objectives[2].completed
    /\ ~tasks[1].objectives[1].completed
    /\ Len(contracts) = 1
    /\ ~contracts[1].task_value.objectives[2].completed
    /\ Len(prepared) = 1
    /\ prepared[1].raised = None
    /\ prepared[1].task_value = tasks[1]

\* C17: when load_config fails in a prepare_training_for_task call that
\* returns, the configuration returned is the all-defaults configuration
\* with the overrides of the call's task applied, whatever earlier calls
\* left in the store under the base configuration's name.  (StoreSpec)
C17_DefaultsAfterFailedLoad ==
    \A n \in 1..Len(prepared) :
        (prepared[n].load_raised # None /\ prepared[n].raised = None)
        => prepared[n].value.training_config.config_data
            = _dict_to_config(
                _update_dict_recursive(
                    _config_to_dict(OSRSRLConfig),
                    task_config_updates(prepared[n].task_value))).value

\* C18: is_task_complete(task) returns true exactly when no objective of
\* the task is still open, and after any sequence of create and mark calls
\* get_incomplete_tasks() returns, in registry order, exactly the registry
\* tasks that have an open objective.  (Spec)
C18_CompleteAndIncomplete ==
    /\ ret.op = "is_task_complete"
        => ret.value
            = ({n \in 1..Len(tasks[ret.args[1]].objectives) :
                    ~tasks[ret.args[1]].objectives[n].completed} = {})
    /\ ret.op = "get_incomplete_tasks"
        => \E open \in {{t \in 1..Len(tasks) :
                \E n \in 1..Len(tasks[t].objectives) :
                    ~tasks[t].objectives[n].completed}} :
            /\ Len(ret.value) = Cardinality(open)
            /\ \A t \in open :
                ret.value[Cardinality({u \in open : u <= t})] = tasks[t]

\* C18, reached: the first task of the registry has both its objectives
\* marked, the second has one of two marked, and get_incomplete_tasks() has
\* returned the second alone.
C18_OneOfTwoIncomplete ==
    /\ ret.op = "get_incomplete_tasks"
    /\ Len(tasks) = 2
    /\ Len(tasks[1].objectives) = 2
    /\ tasks[1].objectives[1].completed
    /\ tasks[1].objectives[2].completed
    /\ Len(tasks[2].objectives) = 2
    /\ tasks[2].objectives[1].completed
    /\ ~tasks[2].objectives[2].completed
    /\ ret.value = <<tasks[2]>>

\* C19: for every username that is not blank and every password, also a
\* username with ':' in it, retrieve_credentials() right after a
\* store_credentials(username, password) that returned gives exactly
\* (username, password); right after a clear_credentials() that returned
\* it gives None.  (CredentialSpec)
C19_StoreRetrieveRoundTrip ==
    \A n \in 1..(Len(credential_calls) - 1) :
        (credential_calls[n].raised = None
            /\ credential_calls[n + 1].op = "retrieve_credentials")
        => /\ credential_calls[n].op = "store_credentials"
                => credential_calls[n + 1].value
                    = <<credential_calls[n].args[1],
                        credential_calls[n].args[2]>>
           /\ credential_calls[n].op = "clear_credentials"
                => credential_calls[n + 1].value = None

\* C20: save_environment_contract(contract, filename) never lets a write
\* failure through: whether or not the disk takes the write, the call
\* returns normally and the loaded contract map, and what get_contract
\* returns for every loaded name, are as before the call.  (FactorySpec)
C20_SaveSwallowsWriteFailure ==
    [][ret'.op = "save_environment_contract"
       => /\ ret'.raised = None
          /\ _base_contracts' = _base_contracts
          /\ list_available_contracts' = list_available_contracts
          /\ \A name \in list_available_contracts :
                get_contract(name)' = get_contract(name)
      ]_vars

\* C20, reached: a customized contract was to be saved under the name of
\* the loaded base contract, the write failed, and the call has returned.
C20_FailedSaveReturned ==
    /\ ret.op = "save_environment_contract"
    /\ ret.raised = None
    /\ ret.args[2] = "NhEnv"
    /\ "NhEnv.json" \notin DOMAIN temp_files
    /\ "NhEnv" \in list_available_contracts
    /\ "task_info" \in DOMAIN contracts[ret.args[1]].returned
    /\ "observations" \in DOMAIN get_contract("NhEnv")

\* C21: parse_task assigns the category of the first rule that matches the
\* lower-cased, stripped description, in this order: a word in the combat
\* keyword set (COMBAT), a word in the skilling keyword set (SKILLING),
\* substring "quest" (QUESTING), a substring among buy, sell, trade, exchange
\* (TRADING), a substring among explore, find, locate, "go to" (EXPLORATION),
\* substring "pvp" or both substrings "player" and "kill" (PVP); when no rule
\* matches the category is UNKNOWN.  (ParseSpec)
C21_FirstMatchingRule ==
    ret.op = "create_task_from_description"
    => \E text \in {Strip(Lower(ret.args[1]))} :
       \E words \in {Range(Split(text))} :
       \E rules \in {<<
            <<words \cap _combat_keywords # {}, COMBAT>>,
            <<words \cap _skilling_keywords # {}, SKILLING>>,
            <<Contains(text, "quest"), QUESTING>>,
            <<\E sub \in {"buy", "sell", "trade", "exchange"} :
                    Contains(text, sub), TRADING>>,
            <<\E sub \in {"explore", "find", "locate", "go to"} :
                    Contains(text, sub), EXPLORATION>>,
            <<Contains(text, "pvp")
                \/ (Contains(text, "player") /\ Contains(text, "kill")), PVP>>,
            <<TRUE, UNKNOWN>> >>} :
          /\ ret.raised = None
          /\ ret.value.category
                = rules[Min({r \in 1..Len(rules) : rules[r][1]})][2]

\* C22: parse_task assigns the difficulty of the first rule that matches the
\* lower-cased, stripped description: ADVANCED for a substring among boss,
\* raid, advanced, expert, "high level", difficult; else INTERMEDIATE for a
\* substring among medium, moderate, some, several; else INTERMEDIATE when
\* more than 3 objectives were extracted; else BEGINNER.  A difficulty is
\* always assigned.  (ParseSpec)
C22_DifficultyByFirstRule ==
    ret.op = "create_task_from_description"
    => \E text \in {Strip(Lower(ret.args[1]))} :
          /\ ret.raised = None
          /\ ret.value.difficulty \in TaskDifficulty
          /\ \E rules \in {<<
                <<\E sub \in {"boss", "raid", "advanced", "expert",
                              "high level", "difficult"} :
                        Contains(text, sub), ADVANCED>>,
                <<\E sub \in {"medium", "moderate", "some", "several"} :
                        Contains(text, sub), INTERMEDIATE>>,
                <<Len(ret.value.objectives) > 3, INTERMEDIATE>>,
                <<TRUE, BEGINNER>> >>} :
                ret.value.difficulty
                    = rules[Min({r \in 1..Len(rules) : rules[r][1]})][2]

\* C23: for every description, the requirements of the Task parse_task
\* returns have quests_completed empty, and every key of skill_levels is
\* one of the 23 names of the skill vocabulary and is mapped to the integer
\* of a run of digits that stands before it in a phrase "<number>
\* <skill-name> level" or "<number> <skill-name> skill" of the lower-cased
\* description.  (ParseSpec)
C23_RequirementsFromLevelPhrases ==
    (ret.op = "create_task_from_description" /\ ret.raised = None)
    => \E text \in {Strip(Lower(ret.args[1]))} :
       \E skill_levels \in {ret.value.requirements.skill_levels} :
          /\ ret.value.requirements.quests_completed = <<>>
          /\ Cardinality(_skill_keywords) = 23
          /\ DOMAIN skill_levels \subseteq _skill_keywords
          /\ \A name \in DOMAIN skill_levels :
                \E i \in 1..Len(text) : \E j \in (i + 1)..Len(text) :
                \E k \in (j + 1)..Len(text) :
                \E m \in (k + Len(name) + 1)..Len(text) :
                    /\ i = 1 \/ Ch(text, i - 1) \notin DigitChars
                    /\ \A d \in i..(j - 1) : Ch(text, d) \in DigitChars
                    /\ \A b \in j..(k - 1) : Ch(text, b) \in SpaceChars
                    /\ StartsWithAt(text, k, name)
                    /\ \A b \in (k + Len(name))..(m - 1) :
                            Ch(text, b) \in SpaceChars
                    /\ StartsWithAt(text, m, "level")
                            \/ StartsWithAt(text, m, "skill")
                    /\ skill_levels[name] = DigitsValue(SubSeq(text, i, j - 1))

\* C23, reached: a description with two level phrases for the same skill
\* has been parsed; the skill is mapped to the number of the later phrase.
C23_TwoPhrasesOneSkill ==
    /\ ret.op = "create_task_from_description"
    /\ ret.args[1] = "1 magic skill 2 magic levels"
    /\ ret.raised = None
    /\ ret.value.requirements.skill_levels = [magic |-> 2]
    /\ ret.value.requirements.quests_completed = <<>>

C25_OnlyOverridesReplaced ==
    \A n \in 1..Len(prepared) :
        (prepared[n].load_raised = None /\ prepared[n].raised = None)
        => \E category \in {prepared[n].task_value.category} :
           \E data \in {config_files[prepared[n].base_config_name].data} :
           \E result \in {prepared[n].value.training_config.config_data} :
           \E overridden \in {
                [training |-> {"experiment_name"} \cup
                    (IF category = SKILLING THEN {"total_timesteps"} ELSE {}),
                 environment |-> {"environment_name", "max_episode_steps"} \cup
                    (IF category = SKILLING THEN {"step_penalty"} ELSE {}),
                 agent |-> {"model_name"} \cup
                    (IF category = EXPLORATION
                     THEN {"exploration_noise"} ELSE {}),
                 server |-> {}]} :
              /\ DOMAIN result = {"agent", "environment", "training", "server"}
              /\ \A section \in DOMAIN result :
                    /\ DOMAIN result[section] = DOMAIN OSRSRLConfig[section]
                    /\ \A field \in DOMAIN result[section]
                                        \ overridden[section] :
                            result[section][field]
                                = IF section \in DOMAIN data
                                        /\ field \in DOMAIN data[section]
                                  THEN data[section][field]
                                  ELSE OSRSRLConfig[section][field]

\* C25, reached: the configuration file sets 500000 timesteps; a SKILLING
\* task was prepared first and got 2000000, a task of another category
\* was prepared after it and got the 500000 of the file.
C25_FileValueAfterSkillingTask ==
    /\ Len(prepared) = 2
    /\ config_files["default"]
            = YamlFile([training |-> [total_timesteps |-> 500000]])
    /\ prepared[1].raised = None
    /\ prepared[2].raised = None
    /\ prepared[1].task_value.category = SKILLING
    /\ prepared[2].task_value.category = EXPLORATION
    /\ prepared[1].value.training_config.config_data.training.total_timesteps
            = 2000000
    /\ prepared[2].value.training_config.config_data.training.total_timesteps
            = 500000
    /\ prepared[2].value.training_config.config_data.agent.exploration_noise
            = "0.2"

\* C26: a prepare_training_for_task call that loaded the base
\* configuration leaves the store's entry under base_config_name equal to
\* that configuration: the overrides of the task are in the returned
\* training configuration only, not under the base name.  (IntegratorSpec)
C26_BaseEntryKeepsLoadedValue ==
    (/\ ret.op = "prepare_training_for_task"
     /\ ret.raised = None
     /\ prepared[Len(prepared)].load_raised = None)
    => \E name \in {ret.args[2]} :
       \E data \in {config_files[name].data} :
          /\ name \in DOMAIN _configs
          /\ \A section \in DOMAIN OSRSRLConfig :
             \A field \in DOMAIN OSRSRLConfig[section] :
                _configs[name][section][field]
                    = IF section \in DOMAIN data
                            /\ field \in DOMAIN data[section]
                      THEN data[section][field]
                      ELSE OSRSRLConfig[section][field]

\* C27: after prepare_training_for_task has returned for a task A and then
\* for a task B parsed from another description, the file at the
\* environment_contract_path returned for A still holds the contract of A:
\* a later call never overwrites the contract file of an earlier task.
\* (TempFileSpec)
C27_EarlierContractFileKept ==
    \A a \in 1..Len(prepared) : \A b \in (a + 1)..Len(prepared) :
        (/\ prepared[a].raised = None
         /\ prepared[b].raised = None
         /\ prepared[a].task_value.description
                # prepared[b].task_value.description)
        => \E path \in {prepared[a].value.environment_contract_path} :
           \E file \in {SubSeq(path, Len(contracts_dir) + 1, Len(path))} :
              /\ file \in DOMAIN temp_files
              /\ temp_files[file].description
                    = "Environment for task: "
                        \o prepared[a].task_value.description
              /\ [n \in DOMAIN temp_files[file].task_metadata.objectives |->
                    temp_files[file].task_metadata.objectives[n].description]
                    = [n \in DOMAIN prepared[a].task_value.objectives |->
                        prepared[a].task_value.objectives[n].description]

\* C28: a contract returned by create_environment_for_task is not changed
\* by a later create_environment_for_task call on the same factory: its
\* name, description, task_info, observations and actions stay as they were
\* when it was returned.  (FactorySpec)
C28_ReturnedContractStays ==
    \A c \in 1..Len(contracts) :
    \E now \in {Value(contracts[c].contract, lists)} :
        /\ DOMAIN now = DOMAIN contracts[c].returned
        /\ \A key \in DOMAIN contracts[c].returned
                        \cap {"name", "description", "task_info",
                              "observations", "actions"} :
                now[key] = contracts[c].returned[key]

\* C29: completion is monotonic: in every step of a session of TaskManager
\* operations every task of the registry stays in the registry, an
\* objective whose completed flag is true keeps it true, and a task with
\* no open objective has none after the step.  (Spec)
C29_CompletionMonotonic ==
    [][/\ Len(tasks') >= Len(tasks)
       /\ \A t \in 1..Len(tasks) :
            /\ Len(tasks'[t].objectives) = Len(tasks[t].objectives)
            /\ \A n \in 1..Len(tasks[t].objectives) :
                    tasks[t].objectives[n].completed
                    => tasks'[t].objectives[n].completed
            /\ ({n \in 1..Len(tasks[t].objectives) :
                    ~tasks[t].objectives[n].completed} = {})
               => ({n \in 1..Len(tasks'[t].objectives) :
                        ~tasks'[t].objectives[n].completed} = {})
      ]_vars

\* C29, reached: both objectives of the first task are marked, the last
\* call marked the first of them, and the second task is still open.
C29_MarkedAgainStillComplete ==
    /\ ret.op = "mark_objective_complete"
    /\ ret.args = <<1, 0>>
    /\ Len(tasks) = 2
    /\ Len(tasks[1].objectives) = 2
    /\ tasks[1].objectives[1].completed
    /\ tasks[1].objectives[2].completed
    /\ ~tasks[2].objectives[1].completed

\* C30: every description that has "pvp" or "kill" among its
\* whitespace-delimited words is classified COMBAT by parse_task, and
\* parse_task returns category PVP only for a description with no combat
\* or skilling keyword among its words and none of the substrings "quest",
\* buy, sell, trade, exchange, explore, find, locate, "go to".  (ParseSpec)
C30_PvpWordIsCombat ==
    ret.op = "create_task_from_description"
    => \E text \in {Strip(Lower(ret.args[1]))} :
       \E words \in {Range(Split(text))} :
          /\ words \cap {"pvp", "kill"} # {}
                => (ret.raised = None /\ ret.value.category = COMBAT)
          /\ (ret.raised = None /\ ret.value.category = PVP)
                => /\ words \cap (_combat_keywords \cup _skilling_keywords)
                        = {}
                   /\ \A sub \in {"quest", "buy", "sell", "trade",
                                  "exchange", "explore", "find", "locate",
                                  "go to"} : ~Contains(text, sub)

====
